---- MODULE Spec2Model ----
(***************************************************************************)
(* Model of the ConfidentialVotingAutoRegister contract                    *)
(* (src/hardhat.config.ts, lines 96-214).                                  *)
(*                                                                         *)
(* Every external call is one atomic step (one transaction).  A call that  *)
(* reverts leaves the whole contract storage, the access-control list and  *)
(* the event log as they were; only `last`, the observer's record of the   *)
(* most recent step and its outcome, changes.                              *)
(*                                                                         *)
(* The FHE library (@fhevm/solidity) is an external dependency.  Its       *)
(* arithmetic is modelled on plaintexts modulo 2^8; FHE.fromExternal may   *)
(* reject the attestation; FHE.allow, FHE.allowThis and                    *)
(* FHE.makePubliclyDecryptable are recorded in aclAllowed and              *)
(* publicHandles.  The library's own permission checks on operands are not *)
(* part of the contract's source and are not modelled: an FHE operation    *)
(* with verified operands always returns.                                  *)
(***************************************************************************)
EXTENDS Integers, Sequences, FiniteSets, Bags, TLC

(***************************************************************************)
(* Bounds of the model.                                                    *)
(***************************************************************************)
\* number of non-zero externally owned accounts
NumAccounts == 2
\* at most this many TallyAccessGranted events are appended to the log
MaxGrants == 1
\* asynchronous calls of the page in flight together
MaxTasks == 3

ZeroAddress == 0
Accounts == 1..NumAccounts
AddressArgs == Accounts \cup {ZeroAddress}
\* the contract's own address, as used by FHE.allowThis
This == NumAccounts + 1

\* width of euint8
Euint8Mod == 256

\* constructor arguments tried (the deploy script and the test use 86400)
Durations == {0, 1, 86400}
\* constructor arguments tried where no clock step follows
AdminDurations == {0, 86400}
\* registerVoter arguments tried there: the null address and two accounts
AdminVoterArgs == {ZeroAddress, 1, 2}
\* block timestamps the chain may reach (deployment happens at StartTime)
StartTime == 0
TimePoints == {StartTime + 1, StartTime + 86400}
\* plaintexts a client may encrypt as vote and weight
Votes == {0, 1}
Weights == {5}
\* extraData payloads
ExtraData == {"0x"}

(***************************************************************************)
(* Revert reasons, as written in the require statements; FHE.fromExternal  *)
(* reverts inside the input verifier when the attestation does not match.  *)
(***************************************************************************)
Ok == "ok"
InvalidConfiguration == "Duration must be positive"
Unauthorized == "Only admin"
VotingClosed == "Voting closed"
AlreadyInitialized == "Already initialized"
InvalidArgument == "Zero address"
AlreadyRegistered == "Already registered"
NotInitialized == "Contract not initialized"
AlreadyVoted == "Already voted"
NotRegistered == "Not registered"
InvalidCiphertext == "InvalidCiphertext"
\* checked arithmetic of Solidity 0.8: an overflowing addition reverts
ArithmeticPanic == "Panic(0x11)"

VARIABLES
    deployed,          \* has the constructor run successfully
    now,               \* block.timestamp
    admin,
    votingEndTime,
    initialized,
    isRegistered,
    hasVoted,
    totalYesVotes,     \* euint8 handle: [slot, gen, val]
    totalNoVotes,
    aclAllowed,        \* persistent ACL: set of <<handle id, address>>
    publicHandles,     \* ids of the handles marked publicly decryptable
    events,            \* the log: sequence of [name, who, extraData]
    ballots,           \* history: per account, the plaintexts of its successful castVote calls
    last,              \* the most recent step: [op, sender, result]
    hook,              \* the browser: state of useConfidentialVoting and of its calls
    wallet,            \* state of useWalletEthersSigner and of the browser wallet behind it
    tasks,             \* the asynchronous calls in flight, one slot each
    sdk                \* the module variable sdkInstance and what the calls of initializeSDK did

storage == <<deployed, admin, votingEndTime, initialized, isRegistered,
             hasVoted, totalYesVotes, totalNoVotes>>
chain == <<storage, aclAllowed, publicHandles, events>>
\* the wallet hook, the asynchronous calls in flight and the SDK module
session == <<wallet, tasks, sdk>>
vars == <<chain, now, ballots, last, hook, session>>

(***************************************************************************)
(* Encrypted values.  A handle is identified by the storage slot it was    *)
(* computed for and the generation of that slot; val is its plaintext.     *)
(***************************************************************************)
UninitHandle == [slot |-> "none", gen |-> 0, val |-> 0]
FHE_asEuint8(v) == [slot |-> "trivial", gen |-> 0, val |-> v % Euint8Mod]
FHE_mul(a, b) == (a * b) % Euint8Mod
FHE_sub(a, b) == (a - b + Euint8Mod) % Euint8Mod
\* an addition that stops at the largest euint8 instead of wrapping
FHE_add_saturating(total, inc, slot) ==
    [slot |-> slot, gen |-> total.gen + 1,
     val |-> IF total.val + inc >= Euint8Mod THEN Euint8Mod - 1 ELSE total.val + inc]

FHE_add(total, inc, slot) ==
    [slot |-> slot, gen |-> total.gen + 1, val |-> (total.val + inc) % Euint8Mod]

Plain(h) == h.val

\* what the ACL knows of a handle: its identity, not its plaintext
Id(h) == <<h.slot, h.gen>>

(***************************************************************************)
(* Modifiers.                                                              *)
(***************************************************************************)
onlyAdmin(sender) == sender = admin

\* off by one: the deadline instant itself still counts as open
votingOpen_inclusive(timestamp) == timestamp <= votingEndTime

votingOpen(timestamp) == timestamp < votingEndTime

\* a castVote that fails after the auto-registration keeps the registration
Revert_keepsRegistration(op, sender, reason) ==
    /\ last' = [op |-> op, sender |-> sender, result |-> reason]
    /\ isRegistered' =
          IF op = "castVote" /\ reason \in {AlreadyVoted, InvalidCiphertext}
          THEN [isRegistered EXCEPT ![sender] = TRUE]
          ELSE isRegistered
    /\ UNCHANGED <<deployed, admin, votingEndTime, initialized, hasVoted,
                   totalYesVotes, totalNoVotes, aclAllowed, publicHandles,
                   events, now, ballots>>

\* a castVote whose proof is rejected has already marked the caller as voted
Revert_marksVoted(op, sender, reason) ==
    /\ last' = [op |-> op, sender |-> sender, result |-> reason]
    /\ hasVoted' =
          IF op = "castVote" /\ reason = InvalidCiphertext
          THEN [hasVoted EXCEPT ![sender] = TRUE]
          ELSE hasVoted
    /\ UNCHANGED <<deployed, admin, votingEndTime, initialized, isRegistered,
                   totalYesVotes, totalNoVotes, aclAllowed, publicHandles,
                   events, now, ballots>>

Revert(op, sender, reason) ==
    /\ last' = [op |-> op, sender |-> sender, result |-> reason]
    /\ UNCHANGED <<chain, now, ballots>>

Return(op, sender) == last' = [op |-> op, sender |-> sender, result |-> Ok]

(***************************************************************************)
(* constructor(durationInSeconds)                                          *)
(***************************************************************************)
\* The contract's timestamps and durations are uint256 and Solidity 0.8
\* reverts with Panic(0x11) when their sum does not fit.  TLC computes with
\* 32-bit integers, so the model's word ends at 2^31 - 1 instead of 2^256 - 1.
MaxUint256 == 2147483647

\* the duration is not tested
Construct_noCheck(sender, durationInSeconds) ==
    /\ ~deployed
    /\ deployed' = TRUE
    /\ admin' = sender
    /\ votingEndTime' = now + durationInSeconds
    /\ Return("constructor", sender)
    /\ UNCHANGED <<initialized, isRegistered, hasVoted, totalYesVotes,
                   totalNoVotes, aclAllowed, publicHandles, events,
                   now, ballots>>

Construct(sender, durationInSeconds) ==
    /\ ~deployed
    /\ IF ~(durationInSeconds > 0)
       THEN Revert("constructor", sender, InvalidConfiguration)
       ELSE IF durationInSeconds > MaxUint256 - now
       THEN Revert("constructor", sender, ArithmeticPanic)
       ELSE /\ deployed' = TRUE
            /\ admin' = sender
            /\ votingEndTime' = now + durationInSeconds
            /\ Return("constructor", sender)
            /\ UNCHANGED <<initialized, isRegistered, hasVoted, totalYesVotes,
                           totalNoVotes, aclAllowed, publicHandles, events,
                           now, ballots>>

(***************************************************************************)
(* init()                                                                  *)
(***************************************************************************)
\* the initialized flag is tested before the sender
initRevert_flagFirst(sender) ==
    IF initialized THEN AlreadyInitialized
    ELSE IF ~onlyAdmin(sender) THEN Unauthorized
    ELSE Ok

\* the initialized flag is not tested at all
initRevert_repeatable(sender) ==
    IF ~onlyAdmin(sender) THEN Unauthorized ELSE Ok

initRevert(sender) ==
    IF ~onlyAdmin(sender) THEN Unauthorized
    ELSE IF initialized THEN AlreadyInitialized
    ELSE Ok

Initialize(sender) ==
    /\ deployed
    /\ IF initRevert(sender) # Ok
       THEN Revert("init", sender, initRevert(sender))
       ELSE /\ totalYesVotes' = FHE_asEuint8(0)
            /\ totalNoVotes' = FHE_asEuint8(0)
            /\ initialized' = TRUE
            /\ Return("init", sender)
            /\ UNCHANGED <<deployed, admin, votingEndTime, isRegistered,
                           hasVoted, aclAllowed, publicHandles, events, now,
                           ballots>>

(***************************************************************************)
(* registerVoter(voter, extraData)                                         *)
(***************************************************************************)
\* an address is registered again without complaint
registerVoterRevert_noDup(sender, voter) ==
    IF ~onlyAdmin(sender) THEN Unauthorized
    ELSE IF voter = ZeroAddress THEN InvalidArgument
    ELSE Ok

registerVoterRevert(sender, voter) ==
    IF ~onlyAdmin(sender) THEN Unauthorized
    ELSE IF voter = ZeroAddress THEN InvalidArgument
    ELSE IF isRegistered[voter] THEN AlreadyRegistered
    ELSE Ok

RegisterVoter(sender, voter, extraData) ==
    /\ deployed
    /\ IF registerVoterRevert(sender, voter) # Ok
       THEN Revert("registerVoter", sender, registerVoterRevert(sender, voter))
       ELSE /\ isRegistered' = [isRegistered EXCEPT ![voter] = TRUE]
            /\ events' = Append(events, [name |-> "VoterRegistered",
                                         who |-> voter, extraData |-> extraData])
            /\ Return("registerVoter", sender)
            /\ UNCHANGED <<deployed, admin, votingEndTime, initialized,
                           hasVoted, totalYesVotes, totalNoVotes, aclAllowed,
                           publicHandles, now, ballots>>

(***************************************************************************)
(* allowTallyAccess(viewer, extraData)                                     *)
(***************************************************************************)
\* access is granted on an initialized round only
allowTallyAccessRevert_needsInit(sender, viewer) ==
    IF ~onlyAdmin(sender) THEN Unauthorized
    ELSE IF viewer = ZeroAddress THEN InvalidArgument
    ELSE IF ~initialized THEN NotInitialized
    ELSE Ok

allowTallyAccessRevert(sender, viewer) ==
    IF ~onlyAdmin(sender) THEN Unauthorized
    ELSE IF viewer = ZeroAddress THEN InvalidArgument
    ELSE Ok

NumGrants == Cardinality({i \in 1..Len(events) : events[i].name = "TallyAccessGranted"})

AllowTallyAccess(sender, viewer, extraData) ==
    /\ deployed
    /\ IF allowTallyAccessRevert(sender, viewer) # Ok
       THEN Revert("allowTallyAccess", sender, allowTallyAccessRevert(sender, viewer))
       ELSE /\ NumGrants < MaxGrants
            /\ aclAllowed' = aclAllowed \cup {<<Id(totalYesVotes), viewer>>,
                                              <<Id(totalNoVotes), viewer>>}
            /\ events' = Append(events, [name |-> "TallyAccessGranted",
                                         who |-> viewer, extraData |-> extraData])
            /\ Return("allowTallyAccess", sender)
            /\ UNCHANGED <<storage, publicHandles, now, ballots>>

(***************************************************************************)
(* makeTallyPublic()                                                       *)
(***************************************************************************)
makeTallyPublicRevert(sender) ==
    IF ~onlyAdmin(sender) THEN Unauthorized ELSE Ok

\* publishing the tally also moves the deadline to the present
MakeTallyPublic_closesRound(sender) ==
    /\ deployed
    /\ IF makeTallyPublicRevert(sender) # Ok
       THEN Revert("makeTallyPublic", sender, makeTallyPublicRevert(sender))
       ELSE /\ publicHandles' = publicHandles \cup {Id(totalYesVotes), Id(totalNoVotes)}
            /\ votingEndTime' = now
            /\ Return("makeTallyPublic", sender)
            /\ UNCHANGED <<deployed, admin, initialized, isRegistered, hasVoted,
                           totalYesVotes, totalNoVotes, aclAllowed, events,
                           now, ballots>>

MakeTallyPublic(sender) ==
    /\ deployed
    /\ IF makeTallyPublicRevert(sender) # Ok
       THEN Revert("makeTallyPublic", sender, makeTallyPublicRevert(sender))
       ELSE /\ publicHandles' = publicHandles \cup {Id(totalYesVotes), Id(totalNoVotes)}
            /\ Return("makeTallyPublic", sender)
            /\ UNCHANGED <<storage, aclAllowed, events, now, ballots>>

(***************************************************************************)
(* castVote(voteHandle, weightHandle, attestation, extraData)              *)
(* vote and weight are the plaintexts behind the two external handles;     *)
(* attestationValid says whether FHE.fromExternal accepts the attestation. *)
(***************************************************************************)
\* no hasVoted check
castVoteRevert_revote(sender, attestationValid) ==
    IF ~votingOpen(now) THEN VotingClosed
    ELSE IF ~initialized THEN NotInitialized
    ELSE IF ~attestationValid THEN InvalidCiphertext
    ELSE Ok

\* the initialized flag is tested before the deadline
castVoteRevert_initFirst(sender, attestationValid) ==
    IF ~initialized THEN NotInitialized
    ELSE IF ~votingOpen(now) THEN VotingClosed
    ELSE IF hasVoted[sender] THEN AlreadyVoted
    ELSE IF ~attestationValid THEN InvalidCiphertext
    ELSE Ok

\* no initialized check
castVoteRevert_noInit(sender, attestationValid) ==
    IF ~votingOpen(now) THEN VotingClosed
    ELSE IF hasVoted[sender] THEN AlreadyVoted
    ELSE IF ~attestationValid THEN InvalidCiphertext
    ELSE Ok

\* registration is required instead of granted
castVoteRevert_registeredOnly(sender, attestationValid) ==
    IF ~votingOpen(now) THEN VotingClosed
    ELSE IF ~initialized THEN NotInitialized
    ELSE IF ~isRegistered[sender] THEN NotRegistered
    ELSE IF hasVoted[sender] THEN AlreadyVoted
    ELSE IF ~attestationValid THEN InvalidCiphertext
    ELSE Ok

castVoteRevert(sender, attestationValid) ==
    IF ~votingOpen(now) THEN VotingClosed
    ELSE IF ~initialized THEN NotInitialized
    ELSE IF hasVoted[sender] THEN AlreadyVoted
    ELSE IF ~attestationValid THEN InvalidCiphertext
    ELSE Ok

\* the caller is not registered by castVote
autoRegister_skip(sender) == isRegistered

\* the registry is rewritten to hold the caller alone
autoRegister_overwrite(sender) == [a \in AddressArgs |-> a = sender]

autoRegister(sender) ==
    IF ~isRegistered[sender]
    THEN [isRegistered EXCEPT ![sender] = TRUE]
    ELSE isRegistered

autoRegisterEvents(sender, extraData) ==
    IF ~isRegistered[sender]
    THEN Append(events, [name |-> "VoterRegistered", who |-> sender,
                         extraData |-> extraData])
    ELSE events

\* the yes increment taken with the opposite sign
yesInc_negated(vote, weight) == FHE_mul(FHE_sub(0, vote), weight)

yesInc(vote, weight) == FHE_mul(vote, weight)

\* 1 - vote stops at 0 instead of wrapping
noInc_clamped(vote, weight) ==
    IF vote > 1 THEN 0 ELSE FHE_mul(FHE_sub(1, vote), weight)

noInc(vote, weight) == FHE_mul(FHE_sub(1, vote), weight)

CastVote(sender, vote, weight, attestationValid, extraData) ==
    /\ deployed
    /\ IF castVoteRevert(sender, attestationValid) # Ok
       THEN Revert("castVote", sender, castVoteRevert(sender, attestationValid))
       ELSE /\ isRegistered' = autoRegister(sender)
            /\ totalYesVotes' = FHE_add(totalYesVotes, yesInc(vote, weight), "yes")
            /\ totalNoVotes' = FHE_add(totalNoVotes, noInc(vote, weight), "no")
            /\ hasVoted' = [hasVoted EXCEPT ![sender] = TRUE]
            /\ events' = Append(autoRegisterEvents(sender, extraData),
                                [name |-> "VoteCast", who |-> sender,
                                 extraData |-> extraData])
            /\ aclAllowed' = aclAllowed \cup {<<Id(totalYesVotes'), This>>,
                                              <<Id(totalNoVotes'), This>>}
            /\ ballots' = [ballots EXCEPT ![sender] =
                               Append(@, [vote |-> vote, weight |-> weight])]
            /\ Return("castVote", sender)
            /\ UNCHANGED <<deployed, admin, votingEndTime, initialized,
                           publicHandles, now>>

(***************************************************************************)
(* getEncryptedTally(): a view, it returns the two stored handles.         *)
(***************************************************************************)
getEncryptedTally == <<totalYesVotes, totalNoVotes>>

\* the handles are handed to the admin only
GetEncryptedTally_adminOnly(sender) ==
    /\ deployed
    /\ IF ~onlyAdmin(sender)
       THEN Revert("getEncryptedTally", sender, Unauthorized)
       ELSE Return("getEncryptedTally", sender) /\ UNCHANGED <<chain, now, ballots>>

GetEncryptedTally(sender) ==
    /\ deployed
    /\ Return("getEncryptedTally", sender)
    /\ UNCHANGED <<chain, now, ballots>>

(***************************************************************************)
(* grantMyVoteDecryptAccess(voteHandle, attestation)                       *)
(* An external handle is identified by the account that encrypted it.      *)
(***************************************************************************)
FHE_fromExternal(sender, v) == [slot |-> "external", gen |-> sender, val |-> v % Euint8Mod]

\* registration is not required
grantMyVoteDecryptAccessRevert_open(sender, attestationValid) ==
    IF ~attestationValid THEN InvalidCiphertext ELSE Ok

grantMyVoteDecryptAccessRevert(sender, attestationValid) ==
    IF ~isRegistered[sender] THEN NotRegistered
    ELSE IF ~attestationValid THEN InvalidCiphertext
    ELSE Ok

GrantMyVoteDecryptAccess(sender, vote, attestationValid) ==
    /\ deployed
    /\ IF grantMyVoteDecryptAccessRevert(sender, attestationValid) # Ok
       THEN Revert("grantMyVoteDecryptAccess", sender,
                   grantMyVoteDecryptAccessRevert(sender, attestationValid))
       ELSE /\ aclAllowed' = aclAllowed \cup
                                {<<Id(FHE_fromExternal(sender, vote)), sender>>}
            /\ Return("grantMyVoteDecryptAccess", sender)
            /\ UNCHANGED <<storage, publicHandles, events, now, ballots>>

(***************************************************************************)
(* verifyVote(voteHandle, attestation)                                     *)
(***************************************************************************)
FHE_eq(a, b) == a = b

\* the result handle is the stored yes total itself
isValid_total(sender, vote) == totalYesVotes

\* only a vote of 0 is found valid
isValid_zeroOnly(sender, vote) ==
    [slot |-> "isValid", gen |-> sender,
     val |-> IF FHE_eq(vote % Euint8Mod, 0) THEN 1 ELSE 0]

isValid(sender, vote) ==
    [slot |-> "isValid", gen |-> sender,
     val |-> IF FHE_eq(vote % Euint8Mod, 0) \/ FHE_eq(vote % Euint8Mod, 1) THEN 1 ELSE 0]

verifyVoteRevert(sender, attestationValid) ==
    IF ~attestationValid THEN InvalidCiphertext ELSE Ok

VerifyVote(sender, vote, attestationValid) ==
    /\ deployed
    /\ IF verifyVoteRevert(sender, attestationValid) # Ok
       THEN Revert("verifyVote", sender, verifyVoteRevert(sender, attestationValid))
       ELSE /\ aclAllowed' = aclAllowed \cup {<<Id(isValid(sender, vote)), sender>>}
            /\ Return("verifyVote", sender)
            /\ UNCHANGED <<storage, publicHandles, events, now, ballots>>

(***************************************************************************)
(* The chain's clock: a later block with a later timestamp.                *)
(***************************************************************************)
\* a block mined before the contract is deployed
TickBeforeDeploy(timestamp) ==
    /\ ~deployed
    /\ timestamp > now
    /\ now' = timestamp
    /\ last' = [op |-> "tick", sender |-> ZeroAddress, result |-> Ok]
    /\ UNCHANGED <<chain, ballots>>

Tick(timestamp) ==
    /\ deployed
    /\ timestamp > now
    /\ now' = timestamp
    /\ last' = [op |-> "tick", sender |-> ZeroAddress, result |-> Ok]
    /\ UNCHANGED <<chain, ballots>>

(***************************************************************************)
(* The frontend: lib/fhevm.ts and the hook useConfidentialVoting, run in   *)
(* one browser whose wallet holds the account HookUser.                     *)
(***************************************************************************)
HookUser == 1

\* JavaScript's null, where a number is expected
Null == -1

\* error === null
NoError == <<>>

\* no transaction waits for its confirmation
NoTx == [method |-> "none", vote |-> 0, weight |-> 0, who |-> ZeroAddress]

\* A JavaScript number: NaN, or a multiple of one half (twice its value is
\* an integer).
JsNumber(n) == [nan |-> FALSE, twice |-> 2 * n]
NaN == [nan |-> TRUE, twice |-> 0]
OneAndAHalf == [nan |-> FALSE, twice |-> 3]

\* a < b: false when either side is NaN
JsLess(a, b) == ~a.nan /\ ~b.nan /\ a.twice < b.twice

\* a !== b: true when either side is NaN
JsStrictNotEqual(a, b) == a.nan \/ b.nan \/ a.twice # b.twice

\* BigInt(a) throws a RangeError unless a is an integer
BigIntThrows(a) == a.nan \/ a.twice % 2 # 0
BigInt(a) == a.twice \div 2

\* encryptVote(choice, weight): what it throws ("" when it returns), whether
\* createEncryptedInput was reached, and the plaintexts it encrypted
encryptVote(choice, weight, sdkReady) ==
    IF JsStrictNotEqual(choice, JsNumber(0)) /\ JsStrictNotEqual(choice, JsNumber(1))
    THEN [thrown |-> "Vote choice must be 0 or 1", created |-> FALSE,
          vote |-> 0, weight |-> 0]
    ELSE IF JsLess(weight, JsNumber(1)) \/ JsLess(JsNumber(10), weight)
    THEN [thrown |-> "Weight must be between 1-10", created |-> FALSE,
          vote |-> 0, weight |-> 0]
    ELSE IF ~sdkReady
    THEN [thrown |-> "FHEVM WASM initialization failed", created |-> FALSE,
          vote |-> 0, weight |-> 0]
    ELSE IF BigIntThrows(choice) \/ BigIntThrows(weight)
    THEN [thrown |-> "RangeError", created |-> TRUE, vote |-> 0, weight |-> 0]
    ELSE [thrown |-> "", created |-> TRUE,
          vote |-> BigInt(choice), weight |-> BigInt(weight)]

\* sendFHETransaction(contract, methodName, ...): what it throws ("" when the
\* transaction is sent)
sendFHETransaction(methodName) ==
    IF methodName \in {"castVote", "init", "makeTallyPublic"}
    THEN ""
    ELSE "Unknown method"

\* the hook after resetContractState
HookReset ==
    [contract |-> FALSE, isDeployed |-> "null", isInitialized |-> FALSE,
     isRegistered |-> FALSE, hasVoted |-> FALSE, isAdmin |-> FALSE,
     votingEndTime |-> Null, error |-> NoError, pending |-> NoTx,
     call |-> "none", input |-> FALSE, threw |-> FALSE]

\* readContractState(contract, address)
readContractState(address) ==
    [initialized |-> initialized, registered |-> isRegistered[address],
     voted |-> hasVoted[address], admin |-> admin, endTime |-> votingEndTime]

\* the effect's initialize(), with the wallet connected to Sepolia
HookInitialize ==
    /\ hook.pending = NoTx
    /\ ~hook.contract
    /\ IF ~deployed
       THEN hook' = [hook EXCEPT !.isDeployed = "false",
                                 !.error = <<"Contract is not deployed">>,
                                 !.call = "initialize", !.threw = FALSE]
       ELSE LET state == readContractState(HookUser)
            IN  hook' = [hook EXCEPT !.isDeployed = "true",
                                     !.contract = TRUE,
                                     !.error = NoError,
                                     !.isInitialized = state.initialized,
                                     !.isRegistered = state.registered,
                                     !.hasVoted = state.voted,
                                     !.isAdmin = (HookUser = state.admin),
                                     !.votingEndTime = state.endTime,
                                     !.call = "initialize", !.threw = FALSE]
    /\ UNCHANGED <<chain, now, ballots, last, session>>

\* refreshContractState()
RefreshContractState ==
    /\ hook.pending = NoTx
    /\ hook.contract
    /\ LET state == readContractState(HookUser)
       IN  hook' = [hook EXCEPT !.isInitialized = state.initialized,
                                !.isRegistered = state.registered,
                                !.hasVoted = state.voted,
                                !.isAdmin = (HookUser = state.admin),
                                !.votingEndTime = state.endTime,
                                !.call = "refreshContractState", !.threw = FALSE]
    /\ UNCHANGED <<chain, now, ballots, last, session>>

\* the hook's castVote(choice, weight), up to the sending of the transaction
HookCastVote(choice, weight, sdkReady) ==
    /\ hook.pending = NoTx
    /\ LET started == [hook EXCEPT !.call = "castVote", !.input = FALSE,
                                   !.threw = FALSE]
           encrypted == encryptVote(choice, weight, sdkReady)
       IN  hook' =
             IF ~hook.contract
             THEN [started EXCEPT !.error = <<"Wallet not connected">>]
             ELSE IF ~hook.isInitialized
             THEN [started EXCEPT !.error = <<"Contract not initialized">>]
             ELSE IF hook.hasVoted
             THEN [started EXCEPT !.error = <<"You have already voted">>]
             ELSE IF hook.votingEndTime \notin {Null, 0} /\ now > hook.votingEndTime
             THEN [started EXCEPT !.error = <<"Voting period has ended">>]
             ELSE IF encrypted.thrown # ""
             THEN [started EXCEPT !.error = <<"Vote failed: ", encrypted.thrown>>,
                                  !.input = encrypted.created]
             ELSE IF sendFHETransaction("castVote") # ""
             THEN [started EXCEPT !.error = <<"Vote failed: ",
                                               sendFHETransaction("castVote")>>,
                                  !.input = encrypted.created]
             ELSE [started EXCEPT !.error = NoError,
                                  !.input = encrypted.created,
                                  !.pending = [method |-> "castVote",
                                               vote |-> encrypted.vote,
                                               weight |-> encrypted.weight,
                                               who |-> ZeroAddress]]
    /\ UNCHANGED <<chain, now, ballots, last, session>>

\* the hook's initializeContract(), up to the sending of the transaction
HookInitializeContract ==
    /\ hook.pending = NoTx
    /\ LET started == [hook EXCEPT !.call = "initializeContract", !.threw = FALSE]
       IN  hook' =
             IF ~hook.contract
             THEN [started EXCEPT !.error = <<"Contract or signer not ready">>]
             ELSE IF sendFHETransaction("init") # ""
             THEN [started EXCEPT !.error = <<"Initialization failed: ",
                                               sendFHETransaction("init")>>]
             ELSE [started EXCEPT !.error = NoError,
                                  !.pending = [NoTx EXCEPT !.method = "init"]]
    /\ UNCHANGED <<chain, now, ballots, last, session>>

\* the hook's makeTallyPublic(), up to the sending of the transaction
HookMakeTallyPublic ==
    /\ hook.pending = NoTx
    /\ LET started == [hook EXCEPT !.call = "makeTallyPublic", !.threw = FALSE]
       IN  hook' =
             IF ~hook.contract
             THEN [started EXCEPT !.error = <<"Contract or signer not ready">>]
             ELSE IF sendFHETransaction("makeTallyPublic") # ""
             THEN [started EXCEPT !.error = <<"Failed to make tally public: ",
                                               sendFHETransaction("makeTallyPublic")>>]
             ELSE [started EXCEPT !.error = NoError,
                                  !.pending = [NoTx EXCEPT !.method = "makeTallyPublic"]]
    /\ UNCHANGED <<chain, now, ballots, last, session>>

\* what an admin action of the hook that hands methodName and an address to
\* sendFHETransaction leaves in the hook: registerVoter and grantTallyAccess
adminAction(call, methodName, failure, address) ==
    LET started == [hook EXCEPT !.call = call, !.threw = FALSE]
    IN  IF ~hook.contract
        THEN [started EXCEPT !.error = <<"Contract or signer not ready">>]
        ELSE IF sendFHETransaction(methodName) # ""
        THEN [started EXCEPT !.error = <<failure, sendFHETransaction(methodName)>>,
                             !.threw = TRUE]
        ELSE [started EXCEPT !.error = NoError,
                             !.pending = [NoTx EXCEPT !.method = methodName,
                                                      !.who = address]]

\* the hook's registerVoter(voterAddress)
HookRegisterVoter(voterAddress) ==
    /\ hook.pending = NoTx
    /\ hook' = adminAction("registerVoter", "registerVoter",
                           "Voter registration failed: ", voterAddress)
    /\ UNCHANGED <<chain, now, ballots, last, session>>

\* the hook's grantTallyAccess(viewerAddress)
HookGrantTallyAccess(viewerAddress) ==
    /\ hook.pending = NoTx
    /\ hook' = adminAction("grantTallyAccess", "allowTallyAccess",
                           "Grant tally access failed: ", viewerAddress)
    /\ UNCHANGED <<chain, now, ballots, last, session>>

\* the contract's function sendFHETransaction calls for a method it knows,
\* from the hook's account
Execute(tx) ==
    IF tx.method = "castVote"
    THEN CastVote(HookUser, tx.vote, tx.weight, TRUE, "0x")
    ELSE IF tx.method = "init"
    THEN Initialize(HookUser)
    ELSE MakeTallyPublic(HookUser)

\* The transaction the hook waits for is mined, tx.wait() settles and the
\* rest of the hook's function runs.
HookTxMined ==
    /\ hook.pending # NoTx
    /\ Execute(hook.pending)
    /\ LET settled == [hook EXCEPT !.pending = NoTx]
       IN  hook' =
             IF last'.result # Ok
             THEN [settled EXCEPT
                     !.error = <<"Transaction reverted">>,
                     !.threw = hook.pending.method \in {"registerVoter",
                                                        "allowTallyAccess"}]
             ELSE IF hook.pending.method = "castVote"
             THEN [settled EXCEPT !.hasVoted = TRUE, !.isRegistered = TRUE]
             ELSE IF hook.pending.method = "init"
             THEN [settled EXCEPT !.isInitialized = TRUE]
             ELSE IF hook.pending.method = "registerVoter"
             THEN LET state == readContractState(HookUser)'
                  IN  [settled EXCEPT !.isInitialized = state.initialized,
                                      !.isRegistered = state.registered,
                                      !.hasVoted = state.voted,
                                      !.isAdmin = (HookUser = state.admin),
                                      !.votingEndTime = state.endTime]
             ELSE settled
    /\ UNCHANGED session

(***************************************************************************)
(* The wallet hook useWalletEthersSigner, and the asynchronous functions   *)
(* of the page: each call in flight is an element of the bag tasks and     *)
(* advances from one await to the next in a step of its own.               *)
(***************************************************************************)
Sepolia == "11155111"
OtherChain == "1"
Undefined == "undefined"
Chains == {Sepolia, OtherChain}

\* a call that has just started; addr is the address its closure holds
Started(fn, stage, addr) ==
    [fn |-> fn, stage |-> stage, addr |-> addr, inst |-> 0, removed |-> FALSE]

\* the calls in flight with one more, with one less, with one moved on
Spawn(ts, task) == ts (+) SetToBag({task})
Finish(ts, task) == ts (-) SetToBag({task})
Advance(ts, task, next) == Spawn(Finish(ts, task), next)

\* the hook before any wallet was connected. selected and network are the
\* browser wallet's own state: the account it exposes (ZeroAddress: none)
\* and the chain it is on. dirty says that the provider, the signer, the
\* accounts or chainId changed since the effects of useConfidentialVoting
\* last ran, seen is the userAddress they saw then.
WalletInit ==
    [isConnected |-> FALSE, accounts |-> ZeroAddress, ethersSigner |-> ZeroAddress,
     ethersBrowserProvider |-> FALSE, chainId |-> Undefined, error |-> FALSE,
     selected |-> ZeroAddress, network |-> Sepolia,
     dirty |-> FALSE, seen |-> ZeroAddress]

\* what the first effect of useConfidentialVoting depends on
Deps(w) == <<w.ethersBrowserProvider, w.ethersSigner, w.accounts, w.chainId>>

\* the wallet state new is rendered after old; fresh says that new holds a
\* new provider and signer object
Rendered(old, new, fresh) ==
    [new EXCEPT !.dirty = old.dirty \/ fresh \/ Deps(new) # Deps(old)]

\* the test that opens the hook's effect: no provider, no signer, no
\* userAddress or not Sepolia
Disconnected(w) ==
    \/ ~w.ethersBrowserProvider
    \/ w.ethersSigner = ZeroAddress
    \/ w.accounts = ZeroAddress
    \/ w.chainId # Sepolia

\* resetContractState()
resetContractState(h) ==
    [h EXCEPT !.contract = FALSE, !.isDeployed = "null", !.isInitialized = FALSE,
              !.isRegistered = FALSE, !.hasVoted = FALSE, !.isAdmin = FALSE,
              !.votingEndTime = Null, !.error = NoError]

\* the calls the two effects of useConfidentialVoting start: the first
\* effect starts initialize() unless it resets the hook, the auto-refresh
\* effect starts refreshContractState() when userAddress changed and a
\* contract instance is set
EffectTasks(h, w) ==
    (IF Disconnected(w) THEN EmptyBag
     ELSE SetToBag({Started("initialize", "checkContractDeployment", w.accounts)}))
    (+)
    (IF w.accounts # ZeroAddress /\ w.accounts # w.seen /\ h.contract
     THEN SetToBag({Started("refreshContractState", "readContractState", w.accounts)})
     ELSE EmptyBag)

\* The effects of useConfidentialVoting run after a render in which the
\* wallet state they depend on changed.
RunEffects ==
    /\ wallet.dirty
    /\ BagCardinality(tasks (+) EffectTasks(hook, wallet)) <= MaxTasks
    /\ hook' = IF Disconnected(wallet) THEN resetContractState(hook)
               ELSE [hook EXCEPT !.error = NoError]
    /\ tasks' = tasks (+) EffectTasks(hook, wallet)
    /\ wallet' = [wallet EXCEPT !.dirty = FALSE, !.seen = wallet.accounts]
    /\ UNCHANGED <<chain, now, ballots, last, sdk>>

\* connect() up to its first await
Connect(ts) == Spawn(ts, Started("connect", "eth_requestAccounts", ZeroAddress))

\* what the catch block of connect() and handleAccountsChanged([]) store
Cleared(w) ==
    [w EXCEPT !.isConnected = FALSE, !.accounts = ZeroAddress,
              !.ethersBrowserProvider = FALSE, !.ethersSigner = ZeroAddress]

\* the user presses Connect Wallet
UserConnect ==
    /\ BagCardinality(tasks) < MaxTasks
    /\ wallet' = [wallet EXCEPT !.error = FALSE]
    /\ tasks' = Connect(tasks)
    /\ UNCHANGED <<chain, now, ballots, last, hook, sdk>>

\* the calls of connect() in flight are marked as having seen the accounts
\* removed
Marked(ts) ==
    LET mark(t) == IF t.fn = "connect" THEN [t EXCEPT !.removed = TRUE] ELSE t
        S == BagToSet(ts)
    IN  [u \in {mark(t) : t \in S} |->
           (IF u \in S THEN ts[u] ELSE 0)
           + (IF \E t \in S : t # u /\ mark(t) = u
              THEN ts[CHOOSE t \in S : t # u /\ mark(t) = u] ELSE 0)]

\* The browser wallet exposes another account, or none, and emits
\* accountsChanged: handleAccountsChanged clears the connection or calls
\* connect().
AccountsChanged(account) ==
    /\ account # wallet.selected
    /\ IF account = ZeroAddress
       THEN /\ wallet' = Rendered(wallet, Cleared([wallet EXCEPT !.selected = account]),
                                  FALSE)
            /\ tasks' = Marked(tasks)
       ELSE /\ BagCardinality(tasks) < MaxTasks
            /\ wallet' = [wallet EXCEPT !.selected = account, !.error = FALSE]
            /\ tasks' = Connect(tasks)
    /\ UNCHANGED <<chain, now, ballots, last, hook, sdk>>

\* The browser wallet moves to another chain and emits chainChanged:
\* handleChainChanged sets chainId and calls connect().
ChainChanged(cid) ==
    /\ cid # wallet.network
    /\ BagCardinality(tasks) < MaxTasks
    /\ wallet' = Rendered(wallet, [wallet EXCEPT !.network = cid, !.chainId = cid,
                                                 !.error = FALSE], FALSE)
    /\ tasks' = Connect(tasks)
    /\ UNCHANGED <<chain, now, ballots, last, hook, sdk>>

\* eth_requestAccounts answers a call of connect(): the accounts the wallet
\* exposes now; with none, connect() throws and its catch block clears the
\* connection
ConnectRequestAccounts(t) ==
    /\ t.fn = "connect"
    /\ t.stage = "eth_requestAccounts"
    /\ IF wallet.selected = ZeroAddress
       THEN /\ wallet' = Rendered(wallet, [Cleared(wallet) EXCEPT !.error = TRUE,
                                                                  !.chainId = Undefined],
                                  FALSE)
            /\ tasks' = Finish(tasks, t)
       ELSE /\ tasks' = Advance(tasks, t, [t EXCEPT !.stage = "getSigner",
                                                    !.addr = wallet.selected])
            /\ wallet' = wallet
    /\ UNCHANGED <<chain, now, ballots, last, hook, sdk>>

\* getNetwork() and getSigner() answer a call of connect(): with an account
\* exposed, connect() stores the accounts it was given earlier, the chain
\* and a signer of the account exposed now; with none, getSigner() throws
ConnectGetSigner(t) ==
    /\ t.fn = "connect"
    /\ t.stage = "getSigner"
    /\ wallet' =
          IF wallet.selected = ZeroAddress
          THEN Rendered(wallet, [Cleared(wallet) EXCEPT !.error = TRUE,
                                                        !.chainId = Undefined], FALSE)
          ELSE Rendered(wallet, [wallet EXCEPT !.chainId = wallet.network,
                                               !.accounts = t.addr,
                                               !.isConnected = TRUE,
                                               !.ethersBrowserProvider = TRUE,
                                               !.ethersSigner = wallet.selected], TRUE)
    /\ tasks' = Finish(tasks, t)
    /\ UNCHANGED <<chain, now, ballots, last, hook, sdk>>

\* what a read of the contract state stores in the hook
Loaded(h, address) ==
    LET state == readContractState(address)
    IN  [h EXCEPT !.isInitialized = state.initialized,
                  !.isRegistered = state.registered,
                  !.hasVoted = state.voted,
                  !.isAdmin = (address = state.admin),
                  !.votingEndTime = state.endTime]

\* initialize(): checkContractDeployment() answers. Without code at the
\* address the call ends; otherwise it stores isDeployed and a new contract
\* instance, which makes the auto-refresh effect call refreshContractState()
\* for the userAddress of that moment.
InitializeCheckDeployment(t) ==
    /\ t.fn = "initialize"
    /\ t.stage = "checkContractDeployment"
    /\ IF ~deployed
       THEN /\ hook' = [hook EXCEPT !.isDeployed = "false",
                                    !.error = <<"Contract is not deployed">>]
            /\ tasks' = Finish(tasks, t)
       ELSE /\ hook' = [hook EXCEPT !.isDeployed = "true", !.contract = TRUE]
            /\ LET waiting == Advance(tasks, t,
                                      [t EXCEPT !.stage = "verifyContractReadiness"])
               IN  IF wallet.accounts = ZeroAddress
                   THEN tasks' = waiting
                   ELSE /\ BagCardinality(tasks) < MaxTasks
                        /\ tasks' = Spawn(waiting,
                                          Started("refreshContractState",
                                                  "readContractState",
                                                  wallet.accounts))
    /\ UNCHANGED <<chain, now, ballots, last, wallet, sdk>>

\* a call of initializeSDK() up to its first await, task being the call
\* and ts the other calls in flight: with an instance stored it returns that
\* instance at once, without window.RelaySDK it waits for the script
initializeSDK(task, ts) ==
    IF sdk.instance # 0
    THEN /\ sdk' = [sdk EXCEPT !.returned = @ \cup {sdk.instance}]
         /\ tasks' = IF task.fn = "initialize"
                     THEN Spawn(ts, [task EXCEPT !.stage = "readContractState"])
                     ELSE ts
    ELSE /\ sdk' = sdk
         /\ tasks' = Spawn(ts, [task EXCEPT !.stage =
                                   IF sdk.RelaySDK THEN "initSDK" ELSE "RelaySDK"])

\* the script of the relayer SDK has loaded
RelaySDKLoaded ==
    /\ ~sdk.RelaySDK
    /\ sdk' = [sdk EXCEPT !.RelaySDK = TRUE]
    /\ UNCHANGED <<chain, now, ballots, last, wallet, hook, tasks>>

\* initializeSDK(): checkSDK finds window.RelaySDK
RelaySDKFound(t) ==
    /\ t.stage = "RelaySDK"
    /\ sdk.RelaySDK
    /\ tasks' = Advance(tasks, t, [t EXCEPT !.stage = "initSDK"])
    /\ UNCHANGED <<chain, now, ballots, last, wallet, hook, sdk>>

\* initialize(): verifyContractReadiness() answers true and initializeSDK()
\* is called
InitializeVerified(t) ==
    /\ t.fn = "initialize"
    /\ t.stage = "verifyContractReadiness"
    /\ initializeSDK(t, Finish(tasks, t))
    /\ UNCHANGED <<chain, now, ballots, last, wallet, hook>>

\* encryptVote() or decryptHandle() calls initializeSDK()
CallInitializeSDK ==
    /\ BagCardinality(tasks) < MaxTasks
    /\ initializeSDK(Started("initializeSDK", "called", ZeroAddress), tasks)
    /\ UNCHANGED <<chain, now, ballots, last, wallet, hook>>

\* initializeSDK(): initSDK() has loaded the WASM and createInstance(config)
\* is invoked; inst numbers the instance it will deliver
InitSDKLoaded(t) ==
    /\ t.stage = "initSDK"
    /\ sdk' = [sdk EXCEPT !.created = @ + 1]
    /\ tasks' = Advance(tasks, t, [t EXCEPT !.stage = "createInstance",
                                            !.inst = sdk.created + 1])
    /\ UNCHANGED <<chain, now, ballots, last, wallet, hook>>

\* initializeSDK(): the wait for window.RelaySDK times out or initSDK()
\* throws, and so does the call; a call made by initialize() ends in its
\* catch block
InitSDKThrows(t) ==
    /\ \/ t.stage = "RelaySDK" /\ ~sdk.RelaySDK
       \/ t.stage = "initSDK"
    /\ hook' = IF t.fn = "initialize"
               THEN [hook EXCEPT !.error = <<"Initialization error: ">>,
                                 !.isDeployed = "false"]
               ELSE hook
    /\ sdk' = [sdk EXCEPT !.thrown = TRUE]
    /\ tasks' = Finish(tasks, t)
    /\ UNCHANGED <<chain, now, ballots, last, wallet>>

\* initializeSDK(): createInstance() delivers; the instance is stored in
\* sdkInstance and returned, and initialize() goes on to read the contract
CreateInstanceDone(t) ==
    /\ t.stage = "createInstance"
    /\ sdk' = [sdk EXCEPT !.instance = t.inst, !.returned = @ \cup {t.inst}]
    /\ tasks' = IF t.fn = "initialize"
                THEN Advance(tasks, t, [t EXCEPT !.stage = "readContractState"])
                ELSE Finish(tasks, t)
    /\ UNCHANGED <<chain, now, ballots, last, wallet, hook>>

\* initialize(): readContractState() answers for the address the call was
\* started with and the flags are stored
InitializeRead(t) ==
    /\ t.fn = "initialize"
    /\ t.stage = "readContractState"
    /\ hook' = Loaded(hook, t.addr)
    /\ tasks' = Finish(tasks, t)
    /\ UNCHANGED <<chain, now, ballots, last, wallet, sdk>>

\* initialize(): verifyContractReadiness() answers false or the read of the
\* contract state fails
InitializeThrows(t) ==
    /\ t.fn = "initialize"
    /\ t.stage \in {"verifyContractReadiness", "readContractState"}
    /\ hook' = [hook EXCEPT !.error = <<"Initialization error: ">>,
                            !.isDeployed = "false"]
    /\ tasks' = Finish(tasks, t)
    /\ UNCHANGED <<chain, now, ballots, last, wallet, sdk>>

\* refreshContractState(): the read answers, or fails and is only logged
RefreshRead(t, ok) ==
    /\ t.fn = "refreshContractState"
    /\ hook' = IF ok THEN Loaded(hook, t.addr) ELSE hook
    /\ tasks' = Finish(tasks, t)
    /\ UNCHANGED <<chain, now, ballots, last, wallet, sdk>>

Init ==
    /\ deployed = FALSE
    /\ now = StartTime
    /\ admin = ZeroAddress
    /\ votingEndTime = 0
    /\ initialized = FALSE
    /\ isRegistered = [a \in AddressArgs |-> FALSE]
    /\ hasVoted = [a \in AddressArgs |-> FALSE]
    /\ totalYesVotes = UninitHandle
    /\ totalNoVotes = UninitHandle
    /\ aclAllowed = {}
    /\ publicHandles = {}
    /\ events = <<>>
    /\ ballots = [a \in Accounts |-> <<>>]
    /\ last = [op |-> "none", sender |-> ZeroAddress, result |-> Ok]
    /\ hook = HookReset
    /\ wallet = WalletInit
    /\ tasks = EmptyBag
    /\ sdk = [instance |-> 0, created |-> 0, returned |-> {}, thrown |-> FALSE,
              RelaySDK |-> FALSE]

Next ==
    \/ \E s \in Accounts, d \in Durations : Construct(s, d) /\ UNCHANGED <<hook, session>>
    \/ \E s \in Accounts : Initialize(s) /\ UNCHANGED <<hook, session>>
    \/ \E s \in Accounts, v \in AddressArgs, x \in ExtraData : RegisterVoter(s, v, x) /\ UNCHANGED <<hook, session>>
    \/ \E s \in Accounts, v \in Votes, w \in Weights, a \in BOOLEAN, x \in ExtraData :
          CastVote(s, v, w, a, x) /\ UNCHANGED <<hook, session>>
    \/ \E t \in TimePoints : Tick(t) /\ UNCHANGED <<hook, session>>

Spec == Init /\ [][Next]_vars

\* the admin-gated operations, over every account as sender
NextAdmin ==
    \/ \E s \in Accounts, d \in AdminDurations : Construct(s, d) /\ UNCHANGED <<hook, session>>
    \/ \E s \in Accounts : Initialize(s) /\ UNCHANGED <<hook, session>>
    \/ \E s \in Accounts, v \in AdminVoterArgs, x \in ExtraData : RegisterVoter(s, v, x) /\ UNCHANGED <<hook, session>>
    \/ \E s \in Accounts, v \in AddressArgs, x \in ExtraData : AllowTallyAccess(s, v, x) /\ UNCHANGED <<hook, session>>
    \/ \E s \in Accounts : MakeTallyPublic(s) /\ UNCHANGED <<hook, session>>

SpecAdmin == Init /\ [][NextAdmin]_vars

\* ballots that make the 8-bit totals wrap, on a round that stays open
TallyVotes == {0, 1, 5, 255}
TallyWeights == {5, 200}

NextTally ==
    \/ \E s \in Accounts : Construct(s, 86400) /\ UNCHANGED <<hook, session>>
    \/ \E s \in Accounts : Initialize(s) /\ UNCHANGED <<hook, session>>
    \/ \E s \in Accounts, v \in TallyVotes, w \in TallyWeights, a \in BOOLEAN,
          x \in ExtraData : CastVote(s, v, w, a, x) /\ UNCHANGED <<hook, session>>

SpecTally == Init /\ [][NextTally]_vars

\* deployment at different times and with durations up to the largest word
DeployDurations == {0, 1, MaxUint256}

NextDeploy ==
    \/ TickBeforeDeploy(StartTime + 1) /\ UNCHANGED <<hook, session>>
    \/ \E s \in Accounts, d \in DeployDurations : Construct(s, d) /\ UNCHANGED <<hook, session>>
    \/ \E s \in Accounts : Initialize(s) /\ UNCHANGED <<hook, session>>
    \/ \E s \in Accounts, v \in AddressArgs, x \in ExtraData : RegisterVoter(s, v, x) /\ UNCHANGED <<hook, session>>
    \/ \E t \in TimePoints : Tick(t) /\ UNCHANGED <<hook, session>>

SpecDeploy == Init /\ [][NextDeploy]_vars

\* votes handed to verifyVote: the two valid ones, the next one, one in the
\* middle of the range and the largest
VerifyVotes == {0, 1, 2, 128, 255}

\* votes cast before verifyVote is called
VerifyCastVotes == {0, 1, 5}

\* voting with votes inside and outside {0,1}, next to verifyVote
NextVerify ==
    \/ \E s \in Accounts : Construct(s, 86400) /\ UNCHANGED <<hook, session>>
    \/ \E s \in Accounts : Initialize(s) /\ UNCHANGED <<hook, session>>
    \/ \E s \in Accounts, v \in VerifyCastVotes, x \in ExtraData : CastVote(s, v, 5, TRUE, x) /\ UNCHANGED <<hook, session>>
    \/ \E s \in Accounts, v \in VerifyVotes, a \in BOOLEAN : VerifyVote(s, v, a) /\ UNCHANGED <<hook, session>>

SpecVerify == Init /\ [][NextVerify]_vars

\* registration by the admin next to voting, on a round that closes at
\* StartTime + 1
NextLog ==
    \/ \E s \in Accounts : Construct(s, 1) /\ UNCHANGED <<hook, session>>
    \/ \E s \in Accounts : Initialize(s) /\ UNCHANGED <<hook, session>>
    \/ \E s \in Accounts, v \in AddressArgs, x \in ExtraData : RegisterVoter(s, v, x) /\ UNCHANGED <<hook, session>>
    \/ \E s \in Accounts, a \in BOOLEAN, x \in ExtraData : CastVote(s, 1, 5, a, x) /\ UNCHANGED <<hook, session>>
    \/ Tick(StartTime + 1) /\ UNCHANGED <<hook, session>>

SpecLog == Init /\ [][NextLog]_vars

\* the calls in flight
InFlight == BagToSet(tasks)

\* the wallet hook alone: the user, the wallet's events and connect()
NextWallet ==
    \/ UserConnect
    \/ \E a \in AddressArgs : AccountsChanged(a)
    \/ \E c \in Chains : ChainChanged(c)
    \/ \E t \in InFlight : ConnectRequestAccounts(t)
    \/ \E t \in InFlight : ConnectGetSigner(t)

SpecWallet == Init /\ [][NextWallet]_vars

\* calls of initializeSDK() from anywhere in the page
NextSDK ==
    \/ RelaySDKLoaded
    \/ CallInitializeSDK
    \/ \E t \in InFlight : RelaySDKFound(t)
    \/ \E t \in InFlight : InitSDKLoaded(t)
    \/ \E t \in InFlight : InitSDKThrows(t)
    \/ \E t \in InFlight : CreateInstanceDone(t)

SpecSDK == Init /\ [][NextSDK]_vars

\* A session of the page: the wallet's events, the effects of
\* useConfidentialVoting and the calls they start, next to the deployment
\* of the contract by account 1. The effects of a render run before the
\* next event is handled.
NextSession ==
    \/ Construct(1, 86400) /\ UNCHANGED <<hook, session>>
    \/ RunEffects
    \/ ~wallet.dirty /\ \E a \in AddressArgs : AccountsChanged(a)
    \/ ~wallet.dirty /\ \E t \in InFlight : ConnectRequestAccounts(t)
    \/ ~wallet.dirty /\ \E t \in InFlight : ConnectGetSigner(t)
    \/ ~wallet.dirty /\ \E t \in InFlight : InitializeCheckDeployment(t)
    \/ ~wallet.dirty /\ \E t \in InFlight : InitializeVerified(t)
    \/ ~wallet.dirty /\ RelaySDKLoaded
    \/ ~wallet.dirty /\ \E t \in InFlight : RelaySDKFound(t)
    \/ ~wallet.dirty /\ \E t \in InFlight : InitSDKLoaded(t)
    \/ ~wallet.dirty /\ \E t \in InFlight : InitSDKThrows(t)
    \/ ~wallet.dirty /\ \E t \in InFlight : CreateInstanceDone(t)
    \/ ~wallet.dirty /\ \E t \in InFlight : InitializeRead(t)
    \/ ~wallet.dirty /\ \E t \in InFlight : InitializeThrows(t)
    \/ ~wallet.dirty /\ \E t \in InFlight, ok \in BOOLEAN : RefreshRead(t, ok)

SpecSession == Init /\ [][NextSession]_vars

\* what the page may hand to the hook's castVote
JsChoices == {JsNumber(0), JsNumber(1), JsNumber(2), NaN}
JsWeights == {JsNumber(0), JsNumber(1), JsNumber(10), JsNumber(11), OneAndAHalf, NaN}

\* the browser of HookUser next to a contract that any account deploys and
\* initializes
NextFrontend ==
    \/ \E s \in Accounts : Construct(s, 1) /\ UNCHANGED <<hook, session>>
    \/ \E s \in Accounts : Initialize(s) /\ UNCHANGED <<hook, session>>
    \/ Tick(StartTime + 1) /\ UNCHANGED <<hook, session>>
    \/ HookInitialize
    \/ RefreshContractState
    \/ \E c \in JsChoices, w \in JsWeights, r \in BOOLEAN : HookCastVote(c, w, r)
    \/ HookInitializeContract
    \/ HookMakeTallyPublic
    \/ \E v \in Accounts : HookRegisterVoter(v)
    \/ \E v \in Accounts : HookGrantTallyAccess(v)
    \/ HookTxMined

SpecFrontend == Init /\ [][NextFrontend]_vars

\* every operation of the contract, each with a compact set of arguments
OpsArgs == {ZeroAddress, 2}

\* the account whose ballot and handles the operations are exercised on; the
\* deployer is either this account or another one
OpsVoters == {1}

NextOps ==
    \/ \E s \in Accounts, d \in {0, 1} : Construct(s, d) /\ UNCHANGED <<hook, session>>
    \/ \E s \in Accounts : Initialize(s) /\ UNCHANGED <<hook, session>>
    \/ \E s \in Accounts, v \in OpsArgs, x \in ExtraData : RegisterVoter(s, v, x) /\ UNCHANGED <<hook, session>>
    \/ \E s \in Accounts, v \in OpsArgs, x \in ExtraData : AllowTallyAccess(s, v, x) /\ UNCHANGED <<hook, session>>
    \/ \E s \in Accounts : MakeTallyPublic(s) /\ UNCHANGED <<hook, session>>
    \/ \E s \in Accounts : GetEncryptedTally(s) /\ UNCHANGED <<hook, session>>
    \/ \E s \in OpsVoters, a \in BOOLEAN, x \in ExtraData : CastVote(s, 1, 5, a, x) /\ UNCHANGED <<hook, session>>
    \/ \E s \in OpsVoters, a \in BOOLEAN : GrantMyVoteDecryptAccess(s, 1, a) /\ UNCHANGED <<hook, session>>
    \/ \E s \in OpsVoters, a \in BOOLEAN : VerifyVote(s, 5, a) /\ UNCHANGED <<hook, session>>
    \/ Tick(StartTime + 1) /\ UNCHANGED <<hook, session>>

SpecOps == Init /\ [][NextOps]_vars

(***************************************************************************)
(* Vocabulary of the properties.  Every action records itself in `last`,   *)
(* so a step that changes some variable and ends with last.op = op is a    *)
(* call of op; a reverted call identical to the one recorded leaves every  *)
(* variable as it was.                                                     *)
(***************************************************************************)
Called(op) == last'.op = op /\ vars' # vars

Caller == last'.sender

Totals == <<totalYesVotes, totalNoVotes>>

PlainTotals == <<Plain(totalYesVotes), Plain(totalNoVotes)>>

Closed == deployed /\ now >= votingEndTime

Open == deployed /\ now < votingEndTime

\* C1: at most one castVote of a principal ever succeeds, and a castVote by a
\* principal whose vote was already counted, on an initialized and open
\* round, reverts with "Already voted" and leaves both totals as they were.
C1_OneVotePerVoter ==
    [][ /\ \A v \in Accounts : Len(ballots'[v]) <= 1
        /\ (Called("castVote") /\ Len(ballots[Caller]) > 0 /\ initialized /\ Open)
              => (last'.result = AlreadyVoted /\ UNCHANGED Totals) ]_vars

C1_Witness ==
    /\ last.op = "castVote"
    /\ last.result = AlreadyVoted
    /\ Len(ballots[last.sender]) = 1
    /\ Plain(totalYesVotes) + Plain(totalNoVotes) > 0

\* C2: whoever has voted is registered.
C2_VotedImpliesRegistered ==
    \A v \in AddressArgs : hasVoted[v] => isRegistered[v]

C2_Witness ==
    \E v \in Accounts :
        /\ hasVoted[v]
        /\ isRegistered[v]
        /\ \A i \in 1..Len(events) :
              (events[i].name = "VoterRegistered" /\ events[i].who = v)
                  => (i < Len(events) /\ events[i + 1].name = "VoteCast"
                      /\ events[i + 1].who = v)

C4_InitializedCheckedFirst ==
    [][ (Called("castVote") /\ ~initialized) => last'.result = NotInitialized ]_vars

\* C4 amended: castVote tests, in this order, the deadline, initialized, the
\* caller's hasVoted flag and the attestation, and reports the first test
\* that fails; on a round that is not initialized and whose deadline has
\* passed it reverts with "Voting closed".
C4_CheckOrder ==
    [][ Called("castVote") =>
          IF now >= votingEndTime THEN last'.result = VotingClosed
          ELSE IF ~initialized THEN last'.result = NotInitialized
          ELSE IF hasVoted[Caller] THEN last'.result = AlreadyVoted
          ELSE last'.result \in {InvalidCiphertext, Ok} ]_vars

C4_Witness ==
    /\ last.op = "castVote"
    /\ last.result = VotingClosed
    /\ ~initialized
    /\ now >= votingEndTime

C6_SecondInitAlreadyInitialized ==
    [][ /\ initialized' # initialized
              => (~initialized /\ initialized' /\ last'.op = "init"
                  /\ Caller = admin /\ last'.result = Ok)
        /\ (Called("init") /\ initialized)
              => (last'.result = AlreadyInitialized /\ UNCHANGED Totals) ]_vars

\* C6 amended: initialized changes only from false to true and only in a
\* successful init() of the admin; an init() called once initialized holds
\* reverts - with "Already initialized" when the admin calls it, with
\* "Only admin" when anyone else does - and leaves the totals as they were.
C6_OneShotInit ==
    [][ /\ initialized' # initialized
              => (~initialized /\ initialized' /\ last'.op = "init"
                  /\ Caller = admin /\ last'.result = Ok)
        /\ (Called("init") /\ initialized)
              => /\ last'.result = IF Caller = admin THEN AlreadyInitialized
                                                    ELSE Unauthorized
                 /\ UNCHANGED Totals ]_vars

C6_Witness ==
    /\ last.op = "init"
    /\ last.sender = admin
    /\ last.result = AlreadyInitialized
    /\ Plain(totalYesVotes) > 0

AdminOps == {"init", "registerVoter", "allowTallyAccess", "makeTallyPublic"}

\* C7: init, registerVoter, allowTallyAccess and makeTallyPublic called by
\* anyone but the admin revert with "Only admin" in every state and for every
\* argument, and the reverted call changes neither the storage nor the access
\* grants nor the event log.
C7_AdminOnly ==
    [][ (\E op \in AdminOps : Called(op)) /\ Caller # admin
          => (last'.result = Unauthorized /\ UNCHANGED chain) ]_vars

C7_Witness ==
    /\ last.op = "init"
    /\ last.sender # admin
    /\ last.result = Unauthorized
    /\ initialized
    /\ isRegistered # [a \in AddressArgs |-> FALSE]
    /\ aclAllowed # {}
    /\ publicHandles # {}

C9_UnregisteredRejected ==
    [][ \A s \in Accounts :
          ( /\ ~isRegistered[s] /\ initialized /\ Open
            /\ \E v \in Votes, w \in Weights, x \in ExtraData :
                  CastVote(s, v, w, TRUE, x) )
          => (last'.result = NotRegistered /\ ~hasVoted'[s]) ]_vars

\* C10: on a round deployed with duration 86400 whose only earlier
\* operation is the admin's registerVoter(user), a castVote of user succeeds
\* and sets hasVoted[user].
C10_RegisteredVoterVotesAfterDeploy ==
    [][ ( /\ deployed /\ votingEndTime = StartTime + 86400 /\ now = StartTime
          /\ last = [op |-> "registerVoter", sender |-> admin, result |-> Ok]
          /\ Len(events) = 1
          /\ ~initialized
          /\ last'.op = "castVote"
          /\ Caller = events[1].who )
          => (last'.result = Ok /\ hasVoted'[Caller]) ]_vars

(***************************************************************************)
(* Tally arithmetic.                                                       *)
(***************************************************************************)
RECURSIVE SumSeq(_, _)
\* the weights of the ballots of seq that carry the vote b
SumSeq(seq, b) ==
    IF seq = <<>> THEN 0
    ELSE (IF Head(seq).vote = b THEN Head(seq).weight ELSE 0) + SumSeq(Tail(seq), b)

RECURSIVE SumWeights(_, _, _)
\* the weights of all counted ballots of the accounts in S that carry the vote b
SumWeights(bal, S, b) ==
    IF S = {} THEN 0
    ELSE LET a == CHOOSE a \in S : TRUE
         IN  SumSeq(bal[a], b) + SumWeights(bal, S \ {a}, b)

\* every counted ballot carries a vote of 0 or 1
BinaryBallots(bal) ==
    \A a \in Accounts : \A i \in 1..Len(bal[a]) : bal[a][i].vote \in {0, 1}

\* C11: a successful castVote with vote b in {0,1} and weight w adds b*w to
\* the plaintext of totalYesVotes and (1-b)*w to that of totalNoVotes, both
\* modulo 256; while all counted votes are 0 or 1 the yes total is the sum of
\* the yes-voters' weights mod 256 and the no total that of the no-voters'.
C11_TallyArithmetic ==
    [][ /\ (Called("castVote") /\ last'.result = Ok) =>
              LET cast == ballots'[Caller][Len(ballots'[Caller])]
              IN  cast.vote \in {0, 1} =>
                    /\ Plain(totalYesVotes') =
                          (Plain(totalYesVotes) + cast.vote * cast.weight) % 256
                    /\ Plain(totalNoVotes') =
                          (Plain(totalNoVotes) + (1 - cast.vote) * cast.weight) % 256
        /\ BinaryBallots(ballots') =>
              /\ Plain(totalYesVotes') = SumWeights(ballots', Accounts, 1) % 256
              /\ Plain(totalNoVotes') = SumWeights(ballots', Accounts, 0) % 256 ]_vars

\* two yes ballots of weight 200 each: the yes total has wrapped to 144
C11_Witness ==
    /\ BinaryBallots(ballots)
    /\ SumWeights(ballots, Accounts, 1) = 400
    /\ Plain(totalYesVotes) = 144
    /\ Plain(totalNoVotes) = 0

\* C12 as stated: once initialized, the plaintext of either total is never
\* smaller after a step than before it.
C12_NeverSmaller ==
    [][ initialized =>
          /\ Plain(totalYesVotes') >= Plain(totalYesVotes)
          /\ Plain(totalNoVotes') >= Plain(totalNoVotes) ]_vars

\* C12 amended: only a successful castVote changes the plaintext of a total,
\* and it adds to it, modulo 256, an increment no smaller than 0: vote*weight
\* to the yes total and (1-vote)*weight to the no total, each reduced modulo
\* 256.  While all counted votes are 0 or 1 and the weights counted for a
\* side sum to less than 256, that side's plaintext is not smaller than before.
C12_NoDecrementButWraparound ==
    [][ /\ PlainTotals' # PlainTotals => (Called("castVote") /\ last'.result = Ok)
        /\ (Called("castVote") /\ last'.result = Ok) =>
              LET cast == ballots'[Caller][Len(ballots'[Caller])]
              IN  /\ Plain(totalYesVotes') =
                        (Plain(totalYesVotes) + ((cast.vote * cast.weight) % 256)) % 256
                  /\ Plain(totalNoVotes') =
                        (Plain(totalNoVotes)
                           + ((((1 - cast.vote) % 256) * cast.weight) % 256)) % 256
        /\ (BinaryBallots(ballots') /\ SumWeights(ballots', Accounts, 1) < 256)
              => Plain(totalYesVotes') >= Plain(totalYesVotes)
        /\ (BinaryBallots(ballots') /\ SumWeights(ballots', Accounts, 0) < 256)
              => Plain(totalNoVotes') >= Plain(totalNoVotes) ]_vars

\* a second ballot raised the yes total from 200 to 205 without wrapping
C12_Witness ==
    /\ last.op = "castVote"
    /\ last.result = Ok
    /\ BinaryBallots(ballots)
    /\ SumWeights(ballots, Accounts, 1) = 205
    /\ Plain(totalYesVotes) = 205

(***************************************************************************)
(* Failed calls.                                                           *)
(***************************************************************************)
\* C13: a call that fails, whatever the reason, leaves admin, votingEndTime,
\* initialized, both totals, isRegistered, hasVoted, the access grants and
\* the event log exactly as they were before the call.
C13_AllOrNothing ==
    [][ last'.result # Ok =>
          /\ UNCHANGED <<deployed, admin, votingEndTime, initialized>>
          /\ UNCHANGED <<totalYesVotes, totalNoVotes, isRegistered, hasVoted>>
          /\ UNCHANGED <<aclAllowed, publicHandles, events>> ]_vars

\* the proof of an unregistered caller was rejected on an initialized, open
\* round that already has grants and events
C13_Witness ==
    /\ last.op = "castVote"
    /\ last.result = InvalidCiphertext
    /\ ~isRegistered[last.sender]
    /\ initialized
    /\ aclAllowed # {}
    /\ events # <<>>

\* C14 as stated: a castVote of an unregistered caller that passes the
\* deadline and initialized checks and then fails on its proof leaves the
\* caller registered, with hasVoted and the totals unchanged.
C14_RegistrationSurvivesFailure ==
    [][ (Called("castVote") /\ last'.result = InvalidCiphertext
         /\ ~isRegistered[Caller])
            => (isRegistered'[Caller] /\ UNCHANGED hasVoted /\ UNCHANGED Totals) ]_vars

\* C14 amended: such a castVote leaves the caller unregistered, as before the
\* call, emits no VoterRegistered event, and leaves hasVoted and the totals
\* unchanged.
C14_RegistrationRolledBack ==
    [][ (Called("castVote") /\ last'.result \in {InvalidCiphertext, AlreadyVoted}
         /\ ~isRegistered[Caller])
            => /\ ~isRegistered'[Caller]
               /\ UNCHANGED <<isRegistered, events, hasVoted, Totals>> ]_vars

C14_Witness ==
    /\ last.op = "castVote"
    /\ last.result = InvalidCiphertext
    /\ initialized
    /\ now < votingEndTime
    /\ ~isRegistered[last.sender]
    /\ \A i \in 1..Len(events) : events[i].who # last.sender

\* C15: a castVote that fails on its proof leaves the caller not voted and
\* the totals unchanged, on a round that is initialized; and a castVote with
\* a valid proof by a caller who has not voted, on an initialized round that
\* is still open, succeeds and is counted once: it is the caller's only
\* ballot and each total grows by that ballot's increment.
C15_RetryAfterRejectedProof ==
    [][ /\ (Called("castVote") /\ last'.result = InvalidCiphertext)
              => /\ ~hasVoted'[Caller]
                 /\ initialized'
                 /\ UNCHANGED hasVoted
                 /\ UNCHANGED Totals
        /\ \A s \in Accounts, v \in Votes, w \in Weights, x \in ExtraData :
              (CastVote(s, v, w, TRUE, x) /\ ~hasVoted[s] /\ initialized
               /\ now < votingEndTime)
                  => /\ last'.result = Ok
                     /\ hasVoted'[s]
                     /\ ballots'[s] = <<[vote |-> v, weight |-> w]>>
                     /\ Plain(totalYesVotes') = (Plain(totalYesVotes) + v * w) % 256
                     /\ Plain(totalNoVotes') = (Plain(totalNoVotes) + (1 - v) * w) % 256 ]_vars

\* a rejected proof on a round where another ballot is already counted; the
\* round is still open and the caller can retry
C15_Witness ==
    /\ last.op = "castVote"
    /\ last.result = InvalidCiphertext
    /\ ~hasVoted[last.sender]
    /\ ballots[last.sender] = <<>>
    /\ initialized
    /\ now < votingEndTime
    /\ Plain(totalYesVotes) + Plain(totalNoVotes) > 0

(***************************************************************************)
(* Fields that never go back.                                              *)
(***************************************************************************)
\* C16: no step of any operation takes isRegistered[v] or hasVoted[v] from
\* true to false, for any address v.
C16_MonotonicFlags ==
    [][ \A v \in AddressArgs :
          /\ isRegistered[v] => isRegistered'[v]
          /\ hasVoted[v] => hasVoted'[v] ]_vars

\* a vote was counted while another account was registered and the voter
\* was not: both flags of the voter were set, the other entry was kept
C16_Witness ==
    /\ last.op = "castVote"
    /\ last.result = Ok
    /\ hasVoted[last.sender]
    /\ \E v \in Accounts : v # last.sender /\ isRegistered[v] /\ ~hasVoted[v]
    /\ \E i \in 1..Len(events) :
          events[i].name = "VoterRegistered" /\ events[i].who = last.sender
                                            /\ i = Len(events) - 1

\* the operations of the deployed contract
ContractOps ==
    {"init", "registerVoter", "castVote", "allowTallyAccess", "makeTallyPublic",
     "grantMyVoteDecryptAccess", "verifyVote", "getEncryptedTally"}

\* C17: once the contract is constructed no step changes admin or
\* votingEndTime: neither a call of init, registerVoter, castVote,
\* allowTallyAccess, makeTallyPublic, grantMyVoteDecryptAccess, verifyVote or
\* getEncryptedTally, by any caller, successful or not, nor the passing of time.
C17_AdminAndDeadlineFixed ==
    [][ /\ deployed => (admin' = admin /\ votingEndTime' = votingEndTime)
        /\ last'.op \in ContractOps => UNCHANGED <<admin, votingEndTime>> ]_vars

\* the admin has initialized the round and published the tally, another
\* account has voted and the deadline has passed
C17_Witness ==
    /\ deployed
    /\ initialized
    /\ publicHandles # {}
    /\ \E v \in Accounts : v # admin /\ hasVoted[v]
    /\ now >= votingEndTime
    /\ last.op \in ContractOps
    /\ last.sender # admin

(***************************************************************************)
(* Construction.                                                           *)
(***************************************************************************)
\* C18 as stated: the constructor reverts with "Duration must be positive"
\* for a duration of 0 and for every other duration deploys with admin the
\* caller, votingEndTime = now + duration, initialized false and nobody
\* registered or voted.
C18_ConstructOrInvalidConfiguration ==
    [][ \A s \in Accounts, d \in DeployDurations :
          Construct(s, d) =>
             IF d = 0
             THEN last'.result = InvalidConfiguration /\ ~deployed'
             ELSE /\ last'.result = Ok
                  /\ deployed'
                  /\ admin' = s
                  /\ votingEndTime' = now + d
                  /\ ~initialized'
                  /\ \A v \in AddressArgs : ~isRegistered'[v] /\ ~hasVoted'[v] ]_vars

\* C18 amended: the constructor reverts with "Duration must be positive" for
\* a duration of 0, reverts with an arithmetic panic when now + duration does
\* not fit the word, and otherwise deploys with admin the caller,
\* votingEndTime = now + duration, which is later than now, initialized false
\* and nobody registered or voted; a failed construction deploys nothing.
C18_Construct ==
    [][ \A s \in Accounts, d \in DeployDurations :
          Construct(s, d) =>
             IF d = 0
             THEN last'.result = InvalidConfiguration /\ ~deployed' /\ UNCHANGED chain
             ELSE IF d > MaxUint256 - now
             THEN last'.result = ArithmeticPanic /\ ~deployed' /\ UNCHANGED chain
             ELSE /\ last'.result = Ok
                  /\ deployed'
                  /\ admin' = s
                  /\ votingEndTime' = now + d
                  /\ votingEndTime' > now
                  /\ ~initialized'
                  /\ \A v \in AddressArgs : ~isRegistered'[v] /\ ~hasVoted'[v]
                  /\ UNCHANGED <<totalYesVotes, totalNoVotes, aclAllowed,
                                 publicHandles, events>> ]_vars

\* deployed in a block later than the first, for one second
C18_Witness ==
    /\ last.op = "constructor"
    /\ last.result = Ok
    /\ deployed
    /\ now > StartTime
    /\ votingEndTime = now + 1
    /\ admin = last.sender

(***************************************************************************)
(* The admin's operations.                                                 *)
(***************************************************************************)
\* C19: registerVoter(voter) called by the admin reverts with "Zero address"
\* for the null address and with "Already registered" when isRegistered[voter]
\* holds, however it came to hold; otherwise it succeeds, whether or not the
\* round is initialized or open, sets isRegistered[voter] and nothing else in
\* the registry, logs VoterRegistered(voter, extraData), and leaves hasVoted,
\* the totals, initialized, admin, votingEndTime and the grants unchanged.
C19_RegisterVoter ==
    [][ \A v \in AddressArgs, x \in ExtraData :
          RegisterVoter(admin, v, x) =>
             IF v = ZeroAddress
             THEN last'.result = InvalidArgument /\ UNCHANGED chain
             ELSE IF isRegistered[v]
             THEN last'.result = AlreadyRegistered /\ UNCHANGED chain
             ELSE /\ last'.result = Ok
                  /\ isRegistered'[v]
                  /\ \A u \in AddressArgs \ {v} : isRegistered'[u] = isRegistered[u]
                  /\ events' = Append(events, [name |-> "VoterRegistered",
                                               who |-> v, extraData |-> x])
                  /\ UNCHANGED <<hasVoted, totalYesVotes, totalNoVotes, initialized,
                                 admin, votingEndTime, aclAllowed, publicHandles>> ]_vars

\* a voter registered after the deadline of a round that was never initialized
C19_Witness ==
    /\ last.op = "registerVoter"
    /\ last.result = Ok
    /\ last.sender = admin
    /\ ~initialized
    /\ now >= votingEndTime
    /\ events # <<>>
    /\ isRegistered[events[Len(events)].who]

\* C20: allowTallyAccess(viewer) called by the admin reverts with
\* "Zero address" for the null address; for any other viewer it succeeds,
\* whether or not the round is initialized or open, allows the viewer on the
\* two handles the totals hold at that moment, keeps every earlier grant,
\* appends the one event TallyAccessGranted(viewer, extraData) and leaves the
\* registry, hasVoted, the totals, initialized and the public handles unchanged.
C20_AllowTallyAccess ==
    [][ \A v \in AddressArgs, x \in ExtraData :
          AllowTallyAccess(admin, v, x) =>
             IF v = ZeroAddress
             THEN last'.result = InvalidArgument /\ UNCHANGED chain
             ELSE /\ last'.result = Ok
                  /\ aclAllowed' = aclAllowed \cup {<<Id(totalYesVotes), v>>,
                                                    <<Id(totalNoVotes), v>>}
                  /\ events' = Append(events, [name |-> "TallyAccessGranted",
                                               who |-> v, extraData |-> x])
                  /\ UNCHANGED <<isRegistered, hasVoted, totalYesVotes, totalNoVotes,
                                 initialized, admin, votingEndTime, publicHandles>> ]_vars

\* access granted after the deadline of a round that was never initialized
C20_Witness ==
    /\ last.op = "allowTallyAccess"
    /\ last.result = Ok
    /\ last.sender = admin
    /\ ~initialized
    /\ now >= votingEndTime
    /\ \E v \in Accounts : {<<Id(totalYesVotes), v>>, <<Id(totalNoVotes), v>>} \subseteq aclAllowed
    /\ events[Len(events)].name = "TallyAccessGranted"

(***************************************************************************)
(* Access to the totals.                                                   *)
(***************************************************************************)
\* the handles getEncryptedTally returns in this state
CurrentHandles == {Id(totalYesVotes), Id(totalNoVotes)}

\* account v may decrypt both handles getEncryptedTally returns
MayDecryptTally(v) == \A h \in CurrentHandles : <<h, v>> \in aclAllowed

\* both handles getEncryptedTally returns are publicly decryptable
TallyIsPublic == CurrentHandles \subseteq publicHandles

\* C21: on an initialized round, a viewer who may decrypt the two current
\* total handles may still decrypt the two current total handles after every
\* step, successful castVote calls included.
C21_TallyAccessKept ==
    [][ \A v \in Accounts :
          (initialized /\ MayDecryptTally(v)) => MayDecryptTally(v)' ]_vars

\* C22: on an initialized round, once both current total handles are
\* publicly decryptable they are so after every step, successful castVote
\* calls included.
C22_TallyStaysPublic ==
    [][ (initialized /\ TallyIsPublic) => TallyIsPublic' ]_vars

\* the handles a total has held or holds: unset, encrypted zero, or a sum
TotalHandleSlots == {"none", "trivial", "yes", "no"}

\* the grants of a state that let someone other than the contract decrypt a
\* handle of a total
TallyGrants(acl) == {g \in acl : g[1][1] \in TotalHandleSlots /\ g[2] # This}

\* C23: only a successful allowTallyAccess of the admin gives an account
\* other than the contract permission on a handle of a total, and it gives it
\* to the viewer named in the call; only a successful makeTallyPublic of the
\* admin makes a handle publicly decryptable; castVote,
\* grantMyVoteDecryptAccess, verifyVote and getEncryptedTally, by anyone, add
\* no such permission, and no step takes one away.
C23_DecryptionGated ==
    [][ /\ aclAllowed' # aclAllowed =>
              /\ TallyGrants(aclAllowed \ aclAllowed') = {}
              /\ TallyGrants(aclAllowed' \ aclAllowed) # {} =>
                    /\ last'.op = "allowTallyAccess"
                    /\ last'.sender = admin
                    /\ last'.result = Ok
                    /\ events'[Len(events')].name = "TallyAccessGranted"
                    /\ \A g \in TallyGrants(aclAllowed' \ aclAllowed) :
                          g[2] = events'[Len(events')].who
              /\ last'.op \in {"castVote", "grantMyVoteDecryptAccess", "verifyVote",
                               "getEncryptedTally"}
                    => TallyGrants(aclAllowed' \ aclAllowed) = {}
        /\ publicHandles' # publicHandles
              => /\ last'.op = "makeTallyPublic"
                 /\ last'.sender = admin
                 /\ last'.result = Ok ]_vars

\* a voter who voted, then took permission on the submitted value and on a
\* verification result, holds no permission on the totals; the viewer the
\* admin named does
C23_Witness ==
    /\ \E v \in Accounts :
          /\ hasVoted[v]
          /\ <<<<"external", v>>, v>> \in aclAllowed
          /\ <<<<"isValid", v>>, v>> \in aclAllowed
          /\ \A g \in TallyGrants(aclAllowed) : g[2] # v
    /\ TallyGrants(aclAllowed) # {}
    /\ publicHandles = {}

\* C24: in every state reached after a successful init() or castVote the
\* contract itself is allowed on both handles the totals hold.
C24_ContractKeepsAccess ==
    initialized => \A h \in CurrentHandles : <<h, This>> \in aclAllowed

(***************************************************************************)
(* The operations open to everyone.                                        *)
(***************************************************************************)
\* C25: getEncryptedTally, called by any account in any state of the
\* deployed contract, succeeds, returns the two handles the totals hold, and
\* changes nothing.
C25_GetEncryptedTallyPureRead ==
    [][ \A s \in Accounts :
          GetEncryptedTally(s) =>
             /\ last'.result = Ok
             /\ getEncryptedTally = <<totalYesVotes, totalNoVotes>>
             /\ UNCHANGED <<chain, now>> ]_vars

\* read by an account that is not the admin and holds no permission on
\* either handle, before init
C25_Witness ==
    /\ last.op = "getEncryptedTally"
    /\ last.result = Ok
    /\ last.sender # admin
    /\ ~initialized
    /\ \A g \in aclAllowed : g[2] # last.sender
    /\ publicHandles = {}

\* C26: grantMyVoteDecryptAccess reverts with "Not registered", the
\* contract's authorization failure for this operation, when the caller is
\* not registered; a registered caller with a rejected proof gets
\* InvalidCiphertext; when it succeeds it allows the caller, and nobody else,
\* on the submitted value, and leaves the registry, hasVoted, the totals, the
\* permissions on the totals, the public handles and the events unchanged.
C26_GrantMyVoteDecryptAccess ==
    [][ Called("grantMyVoteDecryptAccess") =>
          IF ~isRegistered[Caller]
          THEN last'.result = NotRegistered /\ UNCHANGED chain
          ELSE /\ last'.result \in {InvalidCiphertext, Ok}
               /\ last'.result = InvalidCiphertext => UNCHANGED chain
               /\ last'.result = Ok =>
                     /\ aclAllowed' = aclAllowed \cup {<<<<"external", Caller>>, Caller>>}
                     /\ TallyGrants(aclAllowed') = TallyGrants(aclAllowed)
                     /\ \A h \in CurrentHandles : (<<h, This>> \in aclAllowed')
                                                    = (<<h, This>> \in aclAllowed)
                     /\ UNCHANGED <<isRegistered, hasVoted, totalYesVotes,
                                    totalNoVotes, initialized, publicHandles,
                                    events>> ]_vars

\* a registered voter took permission on the submitted value while a viewer
\* holds a grant on the totals
C26_Witness ==
    /\ last.op = "grantMyVoteDecryptAccess"
    /\ last.result = Ok
    /\ isRegistered[last.sender]
    /\ <<<<"external", last.sender>>, last.sender>> \in aclAllowed
    /\ TallyGrants(aclAllowed) # {}
    /\ \A g \in TallyGrants(aclAllowed) : g[2] # last.sender

\* C27: verifyVote, called by anyone, fails only on a rejected proof; for a
\* vote v in 0..255 the boolean it computes is true exactly when v is 0 or 1;
\* it allows the caller, and nobody else, on that boolean and changes nothing
\* in the registry, hasVoted, initialized, the totals, the public handles or
\* the events.  castVote does not apply the check: a castVote of a caller who
\* has not voted, on an initialized open round, fails only on a rejected
\* proof, whatever the vote, and allows nobody on a verification result.
C27_VerifyVote ==
    [][ /\ Called("verifyVote") =>
              /\ last'.result \in {Ok, InvalidCiphertext}
              /\ UNCHANGED <<storage, publicHandles, events>>
              /\ last'.result = InvalidCiphertext => UNCHANGED aclAllowed
              /\ last'.result = Ok =>
                    /\ aclAllowed' = aclAllowed \cup {<<<<"isValid", Caller>>, Caller>>}
                    /\ \A v \in VerifyVotes :
                          /\ Id(isValid(Caller, v)) = <<"isValid", Caller>>
                          /\ Plain(isValid(Caller, v)) \in {0, 1}
                          /\ (Plain(isValid(Caller, v)) = 1) = (v \in {0, 1})
        /\ (Called("castVote") /\ initialized /\ ~hasVoted[Caller]
            /\ now < votingEndTime)
              => /\ last'.result \in {Ok, InvalidCiphertext}
                 /\ {g \in aclAllowed' : g[1][1] = "isValid"}
                       = {g \in aclAllowed : g[1][1] = "isValid"} ]_vars

\* an account that is not registered had a vote verified, on a round where
\* a ballot with the vote 5 is counted
C27_Witness ==
    /\ last.op = "verifyVote"
    /\ last.result = Ok
    /\ ~isRegistered[last.sender]
    /\ <<<<"isValid", last.sender>>, last.sender>> \in aclAllowed
    /\ \E v \in Accounts : ballots[v] = <<[vote |-> 5, weight |-> 5]>>

\* C28: a castVote whose caller is not registered when the call starts never
\* reverts with "Already voted": whoever is not registered has not voted.
C28_AutoRegisteredNotAlreadyVoted ==
    [][ /\ (Called("castVote") /\ ~isRegistered[Caller])
              => (~hasVoted[Caller] /\ last'.result # AlreadyVoted)
        /\ \A v \in AddressArgs : ~isRegistered'[v] => ~hasVoted'[v] ]_vars

\* a first vote registered its caller and was counted; the same caller's
\* second call is the one that meets "Already voted"
C28_Witness ==
    /\ last.op = "castVote"
    /\ last.result = AlreadyVoted
    /\ isRegistered[last.sender]
    /\ \E i \in 1..Len(events) :
          events[i].name = "VoterRegistered" /\ events[i].who = last.sender
    /\ \E v \in Accounts : ~isRegistered[v] /\ ~hasVoted[v]

(***************************************************************************)
(* The frontend.                                                           *)
(***************************************************************************)
\* choice is 0 or 1 and 1 <= weight <= 10
InRange(choice, weight) ==
    /\ choice \in {JsNumber(0), JsNumber(1)}
    /\ ~weight.nan
    /\ 2 <= weight.twice
    /\ weight.twice <= 20

\* C29 as stated: unless choice is 0 or 1 and 1 <= weight <= 10, the hook's
\* castVote ends in an error before any encrypted input is created and sends
\* nothing; every castVote transaction it sends carries a vote in {0,1} and
\* a weight in 1..10.
C29_ValidationBeforeInput ==
    [][ \A c \in JsChoices, w \in JsWeights, r \in BOOLEAN :
          HookCastVote(c, w, r) =>
             /\ ~InRange(c, w) =>
                   (~hook'.input /\ hook'.pending = NoTx /\ hook'.error # NoError)
             /\ hook'.pending # NoTx =>
                   (hook'.pending.vote \in {0, 1} /\ hook'.pending.weight \in 1..10) ]_vars

\* C30: with the contract instance and the signer ready, the hook's
\* registerVoter sends a registerVoter transaction and its grantTallyAccess
\* sends an allowTallyAccess transaction, and neither sets an error.
C30_AdminActionsReachContract ==
    [][ \A v \in Accounts :
          /\ (HookRegisterVoter(v) /\ hook.contract)
                => /\ hook'.pending = [NoTx EXCEPT !.method = "registerVoter", !.who = v]
                   /\ hook'.error = NoError
          /\ (HookGrantTallyAccess(v) /\ hook.contract)
                => /\ hook'.pending = [NoTx EXCEPT !.method = "allowTallyAccess", !.who = v]
                   /\ hook'.error = NoError ]_vars

(***************************************************************************)
(* Frame, audit log and arithmetic of the totals.                          *)
(***************************************************************************)
\* C31: totalYesVotes and totalNoVotes change only in a successful castVote
\* and in the one successful init, which sets them to encrypted zero; every
\* other operation and every failed call leaves both unchanged.
C31_TotalsFrame ==
    [][ Totals' # Totals =>
          /\ last'.result = Ok
          /\ last'.op \in {"castVote", "init"}
          /\ last'.op = "init" =>
                (~initialized /\ initialized' /\ PlainTotals' = <<0, 0>>) ]_vars

\* a voter has voted and a later verifyVote left the totals as they were
C31_Witness ==
    /\ last.op = "verifyVote"
    /\ \E a \in Accounts : hasVoted[a]
    /\ Plain(totalYesVotes) = 5

\* the log holds the event name(v) exactly once
LoggedOnce(log, name, v) ==
    \E i \in 1..Len(log) :
       /\ log[i].name = name /\ log[i].who = v
       /\ \A j \in 1..Len(log) : (log[j].name = name /\ log[j].who = v) => j = i

\* the log does not hold the event name(v)
NotLogged(log, name, v) ==
    \A i \in 1..Len(log) : ~(log[i].name = name /\ log[i].who = v)

\* C32: the event log is append-only; for every principal v it holds exactly
\* one VoterRegistered(v) if isRegistered[v] and none otherwise, exactly one
\* VoteCast(v) if hasVoted[v] and none otherwise, and VoterRegistered(v)
\* comes before VoteCast(v).
C32_AuditLog ==
    [][ /\ Len(events') >= Len(events)
        /\ SubSeq(events', 1, Len(events)) = events
        /\ \A v \in AddressArgs :
              /\ IF isRegistered'[v]
                 THEN LoggedOnce(events', "VoterRegistered", v)
                 ELSE NotLogged(events', "VoterRegistered", v)
              /\ IF hasVoted'[v]
                 THEN LoggedOnce(events', "VoteCast", v)
                 ELSE NotLogged(events', "VoteCast", v)
              /\ \A i \in 1..Len(events') :
                    (events'[i].name = "VoteCast" /\ events'[i].who = v) =>
                       \E j \in 1..(i - 1) :
                          events'[j].name = "VoterRegistered" /\ events'[j].who = v ]_vars

\* two voters have voted, and the log holds the registration of one directly
\* before the registration and the vote of the other
C32_Witness ==
    \E a, b \in Accounts :
       /\ a # b
       /\ hasVoted[a] /\ hasVoted[b]
       /\ \E i \in 1..Len(events) - 2 :
             /\ events[i].name = "VoterRegistered" /\ events[i].who = a
             /\ events[i + 1].name = "VoterRegistered" /\ events[i + 1].who = b
             /\ events[i + 2].name = "VoteCast" /\ events[i + 2].who = b

RECURSIVE IncSeq(_, _)
\* the sum of the increments the counted ballots of seq give to the yes
\* total (yes = TRUE) or to the no total, each increment taken modulo 256
IncSeq(seq, yes) ==
    IF seq = <<>> THEN 0
    ELSE LET v == Head(seq).vote
             w == Head(seq).weight
         IN  (IF yes THEN (v * w) % 256 ELSE (((1 - v + 256) % 256) * w) % 256)
                + IncSeq(Tail(seq), yes)

RECURSIVE IncSum(_, _, _)
\* the same sum over the counted ballots of all accounts in S
IncSum(bal, S, yes) ==
    IF S = {} THEN 0
    ELSE LET a == CHOOSE a \in S : TRUE
         IN  IncSeq(bal[a], yes) + IncSum(bal, S \ {a}, yes)

\* C33: valid castVote calls of distinct voters before the deadline commute:
\* each call changes no other principal's registry entry, and the state
\* reached depends only on which ballots were counted, not on their order -
\* the plaintext totals are the sums mod 256 of the ballots' increments, and
\* an account is registered and has voted exactly if a ballot of it was
\* counted.
C33_OrderIndependence ==
    [][ (Called("castVote") /\ last'.result = Ok) =>
          /\ \A a \in AddressArgs \ {Caller} :
                isRegistered'[a] = isRegistered[a] /\ hasVoted'[a] = hasVoted[a]
          /\ Plain(totalYesVotes') = IncSum(ballots', Accounts, TRUE) % 256
          /\ Plain(totalNoVotes') = IncSum(ballots', Accounts, FALSE) % 256
          /\ \A a \in Accounts :
                /\ hasVoted'[a] = (ballots'[a] # <<>>)
                /\ isRegistered'[a] = (ballots'[a] # <<>>) ]_vars

\* account 2 voted no with weight 200 before account 1 voted yes with
\* weight 5
C33_Witness ==
    /\ ballots[1] = <<[vote |-> 1, weight |-> 5]>>
    /\ ballots[2] = <<[vote |-> 0, weight |-> 200]>>
    /\ Len(events) = 4
    /\ events[2].name = "VoteCast" /\ events[2].who = 2
    /\ events[4].name = "VoteCast" /\ events[4].who = 1
    /\ PlainTotals = <<5, 200>>

\* the same two ballots counted in the other order
C33_WitnessOtherOrder ==
    /\ ballots[1] = <<[vote |-> 1, weight |-> 5]>>
    /\ ballots[2] = <<[vote |-> 0, weight |-> 200]>>
    /\ Len(events) = 4
    /\ events[2].name = "VoteCast" /\ events[2].who = 1
    /\ events[4].name = "VoteCast" /\ events[4].who = 2
    /\ PlainTotals = <<5, 200>>

\* C34: castVote does not restrict the vote to {0,1}: with the contract
\* initialized, the round open, the caller not yet voted and the proof
\* valid, a castVote with any vote v (5, 255) and weight w succeeds, adds
\* v*w mod 256 to the yes total and ((1 - v) mod 256)*w mod 256 to the no
\* total, and marks the caller as voted.
C34_VoteNotRestricted ==
    [][ (/\ Called("castVote")
         /\ initialized
         /\ now < votingEndTime
         /\ ~hasVoted[Caller]
         /\ last'.result # InvalidCiphertext)
        => /\ last'.result = Ok
           /\ LET cast == ballots'[Caller][Len(ballots'[Caller])]
                  v == cast.vote
                  w == cast.weight
              IN  /\ Len(ballots'[Caller]) = Len(ballots[Caller]) + 1
                  /\ Plain(totalYesVotes') =
                        (Plain(totalYesVotes) + ((v * w) % 256)) % 256
                  /\ Plain(totalNoVotes') =
                        (Plain(totalNoVotes) + ((((1 - v + 256) % 256) * w) % 256)) % 256
           /\ hasVoted'[Caller] ]_vars

\* a first ballot with vote 5 and weight 5 was counted: 25 on the yes total
\* and 252 * 5 mod 256 = 236 on the no total
C34_Witness ==
    \E a \in Accounts :
       /\ hasVoted[a]
       /\ ballots[a] = <<[vote |-> 5, weight |-> 5]>>
       /\ \A b \in Accounts \ {a} : ballots[b] = <<>>
       /\ PlainTotals = <<25, 236>>

RECURSIVE WeightSeq(_)
\* the weights of the counted ballots of seq
WeightSeq(seq) ==
    IF seq = <<>> THEN 0 ELSE Head(seq).weight + WeightSeq(Tail(seq))

RECURSIVE WeightSum(_, _)
\* the weights of the counted ballots of all accounts in S
WeightSum(bal, S) ==
    IF S = {} THEN 0
    ELSE LET a == CHOOSE a \in S : TRUE
         IN  WeightSeq(bal[a]) + WeightSum(bal, S \ {a})

\* C35: after init, the sum of the two plaintext totals is congruent modulo
\* 256 to the sum of the weights of all successful castVote calls, whatever
\* the votes were (0, 1, 5, 255).
C35_WeightConservation ==
    initialized =>
       (Plain(totalYesVotes) + Plain(totalNoVotes)) % 256
          = WeightSum(ballots, Accounts) % 256

\* ballots with votes 5 and 255 were counted: the totals are 227 and 234,
\* their sum 461 is 205 modulo 256, the sum of the weights 200 and 5
C35_Witness ==
    /\ ballots[1] = <<[vote |-> 5, weight |-> 200]>>
    /\ ballots[2] = <<[vote |-> 255, weight |-> 5]>>
    /\ PlainTotals = <<227, 234>>

(***************************************************************************)
(* The frontend and the deadline.                                          *)
(***************************************************************************)
\* C36: whenever the contract would reject a vote as closed (now >=
\* votingEndTime), also at now = votingEndTime, the hook's castVote sends no
\* castVote transaction; once its earlier tests have passed it sets the
\* error 'Voting period has ended'.
C36_FrontendAgreesOnClosing ==
    [][ \A c \in JsChoices, w \in JsWeights, r \in BOOLEAN :
          (HookCastVote(c, w, r) /\ deployed /\ now >= votingEndTime) =>
             /\ hook'.pending = NoTx
             /\ (hook.contract /\ hook.isInitialized /\ ~hook.hasVoted)
                   => hook'.error = <<"Voting period has ended">> ]_vars

\* C39: over any interleaving of calls of initializeSDK, overlapping calls
\* included, createInstance is invoked at most once and every call that
\* succeeds returns the same instance.
C39_SingletonSDK ==
    /\ sdk.created <= 1
    /\ Cardinality(sdk.returned) <= 1

\* C40: whenever isConnected is true the accounts are non-empty and
\* ethersSigner is defined, and a call of connect() that was in flight when
\* the wallet emitted accountsChanged with an empty list does not turn
\* isConnected back to true.
C40_WalletConsistent ==
    [][/\ wallet'.isConnected =>
            wallet'.accounts # ZeroAddress /\ wallet'.ethersSigner # ZeroAddress
       /\ \A t \in InFlight :
            (t.removed /\ ~wallet.isConnected /\ ConnectGetSigner(t))
               => ~wallet'.isConnected]_vars

\* C38: once the wallet is disconnected or on another chain than Sepolia,
\* the effects have run and no asynchronous call is in flight any more, the
\* hook is in the reset state: no contract instance, isDeployed null, the
\* four flags false and votingEndTime null.
C38_ResetOnDisconnect ==
    (Disconnected(wallet) /\ ~wallet.dirty /\ tasks = EmptyBag)
       => /\ ~hook.contract
          /\ hook.isDeployed = "null"
          /\ ~hook.isInitialized
          /\ ~hook.isRegistered
          /\ ~hook.hasVoted
          /\ ~hook.isAdmin
          /\ hook.votingEndTime = Null

\* the hook's flags are the contract's values for the address
FlagsOf(address) ==
    /\ hook.isRegistered = isRegistered[address]
    /\ hook.hasVoted = hasVoted[address]
    /\ hook.isAdmin = (address = admin)

\* a read of the contract state is in flight
Reading(ts) ==
    \E t \in BagToSet(ts) : t.fn \in {"initialize", "refreshContractState"}

\* C37: the late result of a read that initialize() or
\* refreshContractState() started for a previous userAddress never
\* overwrites isRegistered, hasVoted and isAdmin, and a read after which no
\* read is in flight leaves the flags at the contract's values for the
\* current userAddress.
C37_NoStaleAccountState ==
    [][\A t \in InFlight :
          (InitializeRead(t) \/ RefreshRead(t, TRUE))
             => /\ t.addr # wallet.accounts
                   => /\ hook'.isRegistered = hook.isRegistered
                      /\ hook'.hasVoted = hook.hasVoted
                      /\ hook'.isAdmin = hook.isAdmin
                /\ (~Reading(tasks') /\ ~wallet.dirty /\ wallet.accounts # ZeroAddress)
                   => FlagsOf(wallet.accounts)']_vars

====
